---- MODULE Spec2Model ----
(***************************************************************************)
(* State-machine model of the plugin SDK hooks                             *)
(* (packages/plugin-sdk/dist/hooks.js): usePluginData and usePluginAsync.  *)
(*                                                                         *)
(* One hook instance lives in one component.  React's contract for the     *)
(* primitives the hooks use is the environment of the model:               *)
(*   - useState(v) makes v the state of the first render;                  *)
(*   - the useEffect callback runs after the render that mounted the       *)
(*     component, and again - after the cleanup it returned - whenever a   *)
(*     dependency differs from the previous render; the cleanup also runs  *)
(*     at teardown;                                                        *)
(*   - the setState calls of one synchronous continuation are committed    *)
(*     together (one render).                                              *)
(* JavaScript values are records [kind, value, ref]: kind is the type tag  *)
(* (instanceof Error is kind = "Error"), value the printable content, ref  *)
(* the object identity (0 for objects allocated by the hook itself).       *)
(***************************************************************************)
EXTENDS Integers, Sequences, FiniteSets, TLC

\* ---- bounds of the model ----
NumInstances == 2          \* hook instances (components) that exist
MaxRequests == 3           \* apiClient.get calls one instance may issue
MaxRuns == 3               \* runs of the effect callback in one instance
MaxCalls == 2              \* execute calls one usePluginAsync may start

Instances == 1 .. NumInstances

\* ---- JavaScript values ----
JS(k, v, r) == [kind |-> k, value |-> v, ref |-> r]
null == JS("null", "", 0)
undefined == JS("undefined", "", 0)

\* values apiClient.get / the async function can resolve with
Results == {JS("object", "v1", 1), JS("object", "v2", 2)}

\* values apiClient.get / the async function can reject with
ErrorInstances == {JS("Error", "boom", 1)}
NonErrors == {JS("string", "boom", 0), JS("number", "42", 0),
              JS("object", "boom", 3), undefined}
Rejections == ErrorInstances \cup NonErrors

\* ---- inputs of usePluginData ----
Urls == {"/a", "/b"}
Clients == {"client1", "client2"}
\* options?.enabled : undefined, true or false
EnabledOpts == {"undefined", "true", "false"}
\* values apiClient.get rejects with in the runs that vary the inputs
SomeRejections == {JS("Error", "boom", 1), JS("string", "boom", 0)}
\* options?.refetchInterval : unset, or a number of milliseconds
NoInterval == [set |-> FALSE, ms |-> 0]
Interval(n) == [set |-> TRUE, ms |-> n]
IntervalOpts == {NoInterval, Interval(0), Interval(-1), Interval(1000)}
\* the interval options of the runs that also vary url, client and enabled
SomeIntervals == {NoInterval, Interval(1000)}

VARIABLES
  \* usePluginData, per instance
  phase,            \* "init" | "rendered" | "active" | "unmounted"
  url, apiClient, enabled, refetchInterval,   \* the tracked inputs (deps)
  optionsRef,       \* identity of the options object of the latest render
  data, loading, error,                       \* the three useState cells
  effects,          \* the isMounted flag of every effect run that passed the
                    \* enabled test, in the order of the runs
  cleanup,          \* the registered cleanup closure [eff, intervalId]
  timers,           \* armed intervals [id, eff, url, apiClient]: the fetchData
                    \* closure each one calls
  requests,         \* apiClient.get promises not yet settled [id, eff]
  issued,           \* number of apiClient.get calls made so far
  \* history of usePluginData, per instance
  runs,             \* number of times the effect callback has run
  lastGet,          \* arguments of the latest call: [url, apiClient]
  lastSettled,      \* how the promise settled latest did: [how, value]
  dataReq,          \* id of the request whose result data holds, 0: none
  lastCommit,       \* "none" | "success" | "failure": last committed settlement
  \* usePluginAsync (one instance)
  aLoading, aError, \* the two useState cells
  calls,            \* ids of the execute invocations awaiting asyncFunction
  started,          \* number of execute invocations started
  outcomes,         \* per invocation: how asyncFunction ended and what
                    \* execute gave its caller, [action, value, promise, result]
  aPhase,           \* "mounted" | "unmounted": the component of the hook
  aLateWrites,      \* number of setLoading / setError calls made after the
                    \* component was torn down
  lastFail          \* id of the invocation that failed last since the most
                    \* recent call of execute, 0: none has
VARIABLES
  \* validateManifest (helpers.ts): one call
  manifest,         \* the argument: [kind, fields]
  vResult,          \* how the call ended, what it logged and how many
                    \* fields it read: [ret, log, examined]
  \* buildApiUrl (helpers.ts): one call
  uBase, uPath, uParams,   \* the three arguments
  uResult,          \* how the call ended: [threw, href]
  \* createPlugin (helpers.ts): one call
  pArg,             \* the component function as it was when passed
  pComponent,       \* the same function object now: [ref, name, displayName,
                    \* defaultProps, propTypes]
  pReturned         \* what the call returned: [called, ref]

hookVars == <<phase, url, apiClient, enabled, refetchInterval, data, loading,
              error, effects, cleanup, timers, requests, issued, runs, lastGet,
              lastSettled, dataReq,
              lastCommit, optionsRef>>
asyncVars == <<aLoading, aError, calls, started, outcomes, aPhase, aLateWrites, lastFail>>
pluginVars == <<pArg, pComponent, pReturned>>
helperVars == <<manifest, vResult, uBase, uPath, uParams, uResult, pluginVars>>
vars == <<hookVars, asyncVars, helperVars>>

\* ---- helpers ----
\* variant: the cell is one variable of the module, shared by all instances
Upd_Shared(f, i, v) == [j \in DOMAIN f |-> v]

\* the cell of instance i becomes v, the cells of the other instances stay
Upd(f, i, v) == [f EXCEPT ![i] = v]

FetchState(d, l, e) == [data |-> d, loading |-> l, error |-> e]

\* the value usePluginData returns to the component (hooks.js line 60)
Visible(i) == FetchState(data[i], loading[i], error[i])

\* ---- usePluginData: initial state ----
NoCleanup == [eff |-> 0, intervalId |-> 0]
NoGet == [url |-> "", apiClient |-> ""]
Settled(h, v) == [how |-> h, value |-> v]

\* the state of the hooks of a component that has not rendered yet
HooksInit ==
  /\ phase = [i \in Instances |-> "init"]
  /\ url = [i \in Instances |-> "/a"]
  /\ apiClient = [i \in Instances |-> "client1"]
  /\ enabled = [i \in Instances |-> "undefined"]
  /\ refetchInterval = [i \in Instances |-> NoInterval]
  /\ optionsRef = [i \in Instances |-> 1]
  /\ data = [i \in Instances |-> null]
  /\ loading = [i \in Instances |-> TRUE]
  /\ error = [i \in Instances |-> null]
  /\ effects = [i \in Instances |-> <<>>]
  /\ cleanup = [i \in Instances |-> NoCleanup]
  /\ timers = [i \in Instances |-> {}]
  /\ requests = [i \in Instances |-> {}]
  /\ issued = [i \in Instances |-> 0]
  /\ runs = [i \in Instances |-> 0]
  /\ lastGet = [i \in Instances |-> NoGet]
  /\ lastSettled = [i \in Instances |-> Settled("none", undefined)]
  /\ dataReq = [i \in Instances |-> 0]
  /\ lastCommit = [i \in Instances |-> "none"]
  /\ aLoading = FALSE
  /\ aError = null
  /\ calls = {}
  /\ started = 0
  /\ outcomes = <<>>
  /\ aPhase = "mounted"
  /\ aLateWrites = 0
  /\ lastFail = 0

\* const required = ['id', 'name', 'version', 'description', 'author', 'bundleUrl']
Required == <<"id", "name", "version", "description", "author", "bundleUrl">>
RequiredFields == {Required[k] : k \in 1 .. Len(Required)}
\* the optional fields of a manifest
OptionalFields == {"thumbnail", "tags", "minPortalVersion"}
AllFields == RequiredFields \cup OptionalFields

\* no helper has been called
NoManifest == [kind |-> "none", fields |-> [f \in AllFields |-> undefined]]
NoVerdict == [ret |-> "none", log |-> <<>>, examined |-> 0]
NoUrlArg == [kind |-> "none", valid |-> FALSE, origin |-> "", segs |-> <<>>, query |-> <<>>]
NoParams == [given |-> FALSE, entries |-> <<>>]
NoUrl == [threw |-> FALSE, href |-> [origin |-> "", segs |-> <<>>, search |-> <<>>]]
NoComponent == [ref |-> 0, name |-> "", displayName |-> undefined,
                defaultProps |-> undefined, propTypes |-> undefined]
NotCalled == [called |-> FALSE, ref |-> 0]
PluginIdle ==
  pArg = NoComponent /\ pComponent = NoComponent /\ pReturned = NotCalled

HelpersIdle ==
  /\ manifest = NoManifest
  /\ vResult = NoVerdict
  /\ uBase = NoUrlArg /\ uPath = NoUrlArg /\ uParams = NoParams
  /\ uResult = NoUrl
  /\ PluginIdle

Init == HooksInit /\ HelpersIdle

\* useState(null), useState(true), useState(null)
InitialState == FetchState(null, TRUE, null)

\* ---- usePluginData: pieces of the effect ----

\* variant: any value with a message property is kept (duck typing)
NormalizeError_ErrorShaped(err) ==
  IF err.kind \in {"Error", "object"} THEN err ELSE JS("Error", "Unknown error", 0)

\* err instanceof Error ? err : new Error('Unknown error')
NormalizeError(err) ==
  IF err.kind = "Error" THEN err ELSE JS("Error", "Unknown error", 0)

\* if (options?.enabled === false)
Disabled(en) == en = "false"

\* if (options?.refetchInterval)  -- JavaScript truthiness of the option
IntervalRequested(ri) == ri.set /\ ri.ms # 0

\* variant: the cleanup function only clears the interval
CleanedEffects_FlagKept(i) == effects[i]

\* the cleanup function, "isMounted = false": the flags afterwards
CleanedEffects(i) ==
  IF cleanup[i].eff = 0 THEN effects[i]
  ELSE [effects[i] EXCEPT ![cleanup[i].eff] = FALSE]

\* variant: the cleanup function does not clear the interval
CleanedTimers_NotCleared(i) == timers[i]

\* the cleanup function, "if (intervalId) clearInterval(intervalId)"
CleanedTimers(i) ==
  IF cleanup[i].intervalId = 0 THEN timers[i]
  ELSE {t \in timers[i] : t.id # cleanup[i].intervalId}

\* the url of the a-th activation of a hook that is mounted with "/a" and
\* whose url changes at every later activation, between "/a" and "/b"
UrlOfActivation(a) == IF a % 2 = 1 THEN "/a" ELSE "/b"

\* variant: a settlement is written when the url of its request is the
\* current url (for hooks whose url alternates as above)
IsMounted_SameUrl(i, r) == UrlOfActivation(r.eff) = url[i]

\* variant: fetchData writes without testing the flag
IsMounted_Unguarded(i, r) == TRUE

\* "if (isMounted)" as fetchData evaluates it after the await of request r
IsMounted(i, r) == effects[i][r.eff]

\* variant: the result is not stored
DataOnSuccess_Dropped(i, v) == data[i]

\* setData(result)
DataOnSuccess(i, v) == v

\* variant: a success leaves the previous error in place
ErrorOnSuccess_Kept(i) == error[i]

\* setError(null)
ErrorOnSuccess(i) == null

\* variant: the catch block resets the data
DataOnFailure_Cleared(i) == null

\* the catch block does not call setData
DataOnFailure(i) == data[i]

\* variant: fetchData has no finally block
LoadingAfterFetch_Kept(i) == loading[i]

\* finally { if (isMounted) setLoading(false); } for a closure whose flag
\* is set
LoadingAfterFetch(i) == FALSE

\* variant: fetchData does not call setLoading(true)
FetchData_NoSetLoading(i, a, u, c) ==
  /\ issued[i] < MaxRequests
  /\ loading' = loading
  /\ requests' = Upd(requests, i, requests[i] \cup {[id |-> issued[i] + 1, eff |-> a]})
  /\ issued' = Upd(issued, i, issued[i] + 1)
  /\ lastGet' = Upd(lastGet, i, [url |-> u, apiClient |-> c])

\* fetchData() of effect closure a up to its await: setLoading(true) and
\* the call apiClient.get(url) with the url and client the closure captured.
FetchData(i, a, u, c) ==
  /\ issued[i] < MaxRequests
  /\ loading' = Upd(loading, i, TRUE)
  /\ requests' = Upd(requests, i, requests[i] \cup {[id |-> issued[i] + 1, eff |-> a]})
  /\ issued' = Upd(issued, i, issued[i] + 1)
  /\ lastGet' = Upd(lastGet, i, [url |-> u, apiClient |-> c])

\* The body of the useEffect callback, run with inputs u, c, en, ri after
\* the previous cleanup left the flags effs and the armed timers tms.
EffectBody(i, u, c, en, ri, effs, tms) ==
  /\ runs[i] < MaxRuns
  /\ runs' = Upd(runs, i, runs[i] + 1)
  /\ IF Disabled(en)
    THEN \* setLoading(false); return;
         /\ loading' = Upd(loading, i, FALSE)
         /\ effects' = Upd(effects, i, effs)
         /\ timers' = Upd(timers, i, tms)
         /\ cleanup' = Upd(cleanup, i, NoCleanup)
         /\ UNCHANGED <<requests, issued, lastGet>>
    ELSE \* let isMounted = true; fetchData(); setInterval(...); return cleanup
         LET a == Len(effs) + 1
             iv == IF IntervalRequested(ri) THEN a ELSE 0
         IN /\ FetchData(i, a, u, c)
            /\ effects' = Upd(effects, i, Append(effs, TRUE))
            /\ timers' = Upd(timers, i,
                  IF iv # 0
                  THEN tms \cup {[id |-> iv, eff |-> a, url |-> u, apiClient |-> c]}
                  ELSE tms)
            /\ cleanup' = Upd(cleanup, i, [eff |-> a, intervalId |-> iv])

\* ---- usePluginData: actions ----

\* variant: the dependency list is [url, apiClient, options]
DepsChanged_OptionsObject(i, u, c, en, ri, o) ==
  <<u, c, o>> # <<url[i], apiClient[i], optionsRef[i]>>

\* React's comparison of the dependency list [url, apiClient,
\* options?.enabled, options?.refetchInterval] of a render that passes u, c
\* and the options object o = { enabled: en, refetchInterval: ri } with the
\* list of the previous render
DepsChanged(i, u, c, en, ri, o) ==
  <<u, c, en, ri>> # <<url[i], apiClient[i], enabled[i], refetchInterval[i]>>

\* First render of the component: the useState initialisers are the state
\* the component sees; the effect has not run yet.
Mount(i, u, c, en, ri) ==
  /\ phase[i] = "init"
  /\ phase' = Upd(phase, i, "rendered")
  /\ url' = Upd(url, i, u)
  /\ apiClient' = Upd(apiClient, i, c)
  /\ enabled' = Upd(enabled, i, en)
  /\ refetchInterval' = Upd(refetchInterval, i, ri)
  /\ data' = Upd(data, i, InitialState.data)
  /\ loading' = Upd(loading, i, InitialState.loading)
  /\ error' = Upd(error, i, InitialState.error)
  /\ UNCHANGED <<effects, cleanup, timers, requests, issued, runs, lastGet,
                 lastSettled, dataReq, lastCommit>>
  /\ UNCHANGED <<optionsRef, asyncVars, helperVars>>

\* The effect runs for the first time, after the first render.
RunEffect(i) ==
  /\ phase[i] = "rendered"
  /\ phase' = Upd(phase, i, "active")
  /\ EffectBody(i, url[i], apiClient[i], enabled[i], refetchInterval[i],
                effects[i], timers[i])
  /\ UNCHANGED <<url, apiClient, enabled, refetchInterval, data, error,
                 lastSettled, dataReq, lastCommit>>
  /\ UNCHANGED <<optionsRef, asyncVars, helperVars>>

\* A render with a changed dependency: the previous cleanup runs, then the
\* effect runs with the new inputs.
ChangeInputs(i, u, c, en, ri) ==
  /\ phase[i] = "active"
  /\ DepsChanged(i, u, c, en, ri, optionsRef[i])
  /\ url' = Upd(url, i, u)
  /\ apiClient' = Upd(apiClient, i, c)
  /\ enabled' = Upd(enabled, i, en)
  /\ refetchInterval' = Upd(refetchInterval, i, ri)
  /\ EffectBody(i, u, c, en, ri, CleanedEffects(i), CleanedTimers(i))
  /\ UNCHANGED <<phase, data, error, lastSettled, dataReq, lastCommit>>
  /\ UNCHANGED <<optionsRef, asyncVars, helperVars>>

\* the options objects a render may pass
OptionRefs == {1, 2}

\* A render that passes the same url and client and an options object o
\* with the same enabled and refetchInterval: React compares the dependency
\* lists and runs the cleanup and the effect only if they differ.
Rerender(i, o) ==
  /\ phase[i] = "active"
  /\ optionsRef' = Upd(optionsRef, i, o)
  /\ IF DepsChanged(i, url[i], apiClient[i], enabled[i], refetchInterval[i], o)
       THEN EffectBody(i, url[i], apiClient[i], enabled[i], refetchInterval[i],
                       CleanedEffects(i), CleanedTimers(i))
       ELSE UNCHANGED <<loading, effects, cleanup, timers, requests, issued,
                        runs, lastGet>>
  /\ UNCHANGED <<phase, url, apiClient, enabled, refetchInterval, data, error,
                 lastSettled, dataReq, lastCommit>>
  /\ UNCHANGED <<asyncVars, helperVars>>

\* variant: a tick is skipped while a request is outstanding
TickGuard_Idle(i) == requests[i] = {}

\* setInterval(fetchData, ...) calls fetchData, which starts with
\* "try { setLoading(true)": nothing tests for an outstanding request
TickGuard(i) == TRUE

\* The armed interval t fires: fetchData() of the closure that armed it.
Tick(i, t) ==
  /\ t \in timers[i]
  /\ TickGuard(i)
  /\ FetchData(i, t.eff, t.url, t.apiClient)
  /\ UNCHANGED <<phase, url, apiClient, enabled, refetchInterval, data, error,
                 effects, cleanup, timers, runs, lastSettled, dataReq, lastCommit>>
  /\ UNCHANGED <<optionsRef, asyncVars, helperVars>>

\* apiClient.get(url) of request r resolves with v: fetchData resumes after
\* the await, runs the rest of the try block and the finally block.
Resolve(i, r, v) ==
  /\ r \in requests[i]
  /\ requests' = Upd(requests, i, requests[i] \ {r})
  /\ lastSettled' = Upd(lastSettled, i, Settled("resolved", v))
  /\ IF IsMounted(i, r)
     THEN /\ data' = Upd(data, i, DataOnSuccess(i, v))
          /\ error' = Upd(error, i, ErrorOnSuccess(i))
          /\ loading' = Upd(loading, i, LoadingAfterFetch(i))
          /\ dataReq' = Upd(dataReq, i, r.id)
          /\ lastCommit' = Upd(lastCommit, i, "success")
     ELSE UNCHANGED <<data, error, loading, dataReq, lastCommit>>
  /\ UNCHANGED <<phase, url, apiClient, enabled, refetchInterval, effects,
                 cleanup, timers, issued, runs, lastGet>>
  /\ UNCHANGED <<optionsRef, asyncVars, helperVars>>

\* apiClient.get(url) of request r rejects with err: the catch block and the
\* finally block run.
Reject(i, r, err) ==
  /\ r \in requests[i]
  /\ requests' = Upd(requests, i, requests[i] \ {r})
  /\ lastSettled' = Upd(lastSettled, i, Settled("rejected", err))
  /\ IF IsMounted(i, r)
     THEN /\ error' = Upd(error, i, NormalizeError(err))
          /\ loading' = Upd(loading, i, LoadingAfterFetch(i))
          /\ data' = Upd(data, i, DataOnFailure(i))
          /\ lastCommit' = Upd(lastCommit, i, "failure")
          /\ UNCHANGED dataReq
     ELSE UNCHANGED <<data, error, loading, dataReq, lastCommit>>
  /\ UNCHANGED <<phase, url, apiClient, enabled, refetchInterval, effects,
                 cleanup, timers, issued, runs, lastGet>>
  /\ UNCHANGED <<optionsRef, asyncVars, helperVars>>

\* The component is torn down: the registered cleanup runs.
Unmount(i) ==
  /\ phase[i] = "active"
  /\ phase' = Upd(phase, i, "unmounted")
  /\ effects' = Upd(effects, i, CleanedEffects(i))
  /\ timers' = Upd(timers, i, CleanedTimers(i))
  /\ cleanup' = Upd(cleanup, i, NoCleanup)
  /\ UNCHANGED <<url, apiClient, enabled, refetchInterval, data, loading, error,
                 requests, issued, runs, lastGet, lastSettled, dataReq,
                 lastCommit>>
  /\ UNCHANGED <<optionsRef, asyncVars, helperVars>>

\* One step of hook instance i, its inputs drawn from U, C, E, R and the
\* rejection values of its requests from RJ.
HookStep(i, U, C, E, R, RJ) ==
  \/ \E u \in U, c \in C, en \in E, ri \in R : Mount(i, u, c, en, ri)
  \/ RunEffect(i)
  \/ \E u \in U, c \in C, en \in E, ri \in R : ChangeInputs(i, u, c, en, ri)
  \/ \E t \in timers[i] : Tick(i, t)
  \/ \E r \in requests[i], v \in Results : Resolve(i, r, v)
  \/ \E r \in requests[i], err \in RJ : Reject(i, r, err)
  \/ Unmount(i)

\* A single component using usePluginData.
Next == HookStep(1, Urls, Clients, EnabledOpts, SomeIntervals, SomeRejections)

Spec == Init /\ [][Next]_vars

\* ---- usePluginAsync ----

\* the record of one execute invocation: action is how asyncFunction ended
\* ("pending" | "resolved" | "rejected" | "threw") with value; promise is the
\* state of the promise execute returned, result what it was settled with
Outcome(a, v, p, res) == [action |-> a, value |-> v, promise |-> p, result |-> res]

\* variant: the catch block stores the error and throws it again
OutcomeOnFailure_Rethrown(a, err) == Outcome(a, err, "rejected", err)

\* catch (err) { setError(...); return undefined; }: what the caller gets
\* when asyncFunction ended as a ("rejected" | "threw") with err
OutcomeOnFailure(a, err) == Outcome(a, err, "fulfilled", undefined)

\* variant: execute has no finally block
LoadingAfterSettle_NoFinally(before) == before

\* finally { setLoading(false); }: loading after the try statement, before
\* being what it was when the try statement was left
LoadingAfterSettle(before) == FALSE

\* variant: execute returns at once while an invocation is outstanding
ExecuteGuard_Idle == calls = {}

\* execute begins with "try { setLoading(true)": it tests neither loading
\* nor whether an earlier invocation is outstanding
ExecuteGuard == TRUE

\* variant: only the latest invocation of a mounted component writes
SettleGuard_LatestMounted(c) == c = started /\ aPhase = "mounted"

\* the catch and finally blocks call the setters without any test: there is
\* no isMounted flag and no comparison with the latest invocation
SettleGuard(c) == TRUE

\* variant: execute does not clear the error
ErrorAtStart_Kept == aError

\* setError(null)
ErrorAtStart == null

\* setter calls made after teardown, n of them being made in this step
LateWrites(n) == IF aPhase = "unmounted" THEN aLateWrites + n ELSE aLateWrites

\* execute(...args) up to the await: setLoading(true); setError(null);
\* asyncFunction(...args) returns a promise.  The handlers that call execute
\* belong to the component, so it is called while the component is mounted.
Execute ==
  /\ started < MaxCalls
  /\ aPhase = "mounted"
  /\ ExecuteGuard
  /\ started' = started + 1
  /\ aLoading' = TRUE
  /\ aError' = ErrorAtStart
  /\ calls' = calls \cup {started + 1}
  /\ outcomes' = Append(outcomes, Outcome("pending", undefined, "pending", undefined))
  /\ lastFail' = 0
  /\ UNCHANGED <<aPhase, aLateWrites>>
  /\ UNCHANGED <<hookVars, helperVars>>

\* execute(...args) when asyncFunction throws before returning a promise:
\* the catch block and the finally block run at once.
ExecuteThrows(err) ==
  /\ started < MaxCalls
  /\ aPhase = "mounted"
  /\ ExecuteGuard
  /\ started' = started + 1
  /\ aError' = NormalizeError(err)
  /\ aLoading' = LoadingAfterSettle(TRUE)
  /\ outcomes' = Append(outcomes, OutcomeOnFailure("threw", err))
  /\ lastFail' = started + 1
  /\ UNCHANGED <<calls, aPhase, aLateWrites>>
  /\ UNCHANGED <<hookVars, helperVars>>

\* the promise of invocation c resolves with v: return result; finally.
AsyncResolve(c, v) ==
  /\ c \in calls
  /\ calls' = calls \ {c}
  /\ outcomes' = [outcomes EXCEPT ![c] = Outcome("resolved", v, "fulfilled", v)]
  /\ IF SettleGuard(c)
       THEN /\ aLoading' = LoadingAfterSettle(aLoading)
            /\ aLateWrites' = LateWrites(1)
       ELSE UNCHANGED <<aLoading, aLateWrites>>
  /\ UNCHANGED <<aError, started, aPhase, lastFail>>
  /\ UNCHANGED <<hookVars, helperVars>>

\* the promise of invocation c rejects with err: catch; finally.
AsyncReject(c, err) ==
  /\ c \in calls
  /\ calls' = calls \ {c}
  /\ outcomes' = [outcomes EXCEPT ![c] = OutcomeOnFailure("rejected", err)]
  /\ lastFail' = c
  /\ IF SettleGuard(c)
       THEN /\ aError' = NormalizeError(err)
            /\ aLoading' = LoadingAfterSettle(aLoading)
            /\ aLateWrites' = LateWrites(2)
       ELSE UNCHANGED <<aError, aLoading, aLateWrites>>
  /\ UNCHANGED <<started, aPhase>>
  /\ UNCHANGED <<hookVars, helperVars>>

\* the component that uses usePluginAsync is torn down; the hook registers
\* no cleanup, so nothing else happens
AsyncUnmount ==
  /\ aPhase = "mounted"
  /\ aPhase' = "unmounted"
  /\ UNCHANGED <<aLoading, aError, calls, started, outcomes, aLateWrites, lastFail>>
  /\ UNCHANGED <<hookVars, helperVars>>

AsyncStep ==
  \/ Execute
  \/ \E err \in Rejections : ExecuteThrows(err)
  \/ \E c \in calls, v \in Results : AsyncResolve(c, v)
  \/ \E c \in calls, err \in Rejections : AsyncReject(c, err)

\* A single component using usePluginAsync, up to and after its teardown.
NextAsync == AsyncStep \/ AsyncUnmount

SpecAsync == Init /\ [][NextAsync]_vars

\* One component that uses both hooks: usePluginData with inputs that never
\* change and no interval, and usePluginAsync; every rejection value occurs.
FetchStep(i) ==
  \/ \E u \in Urls, c \in Clients : Mount(i, u, c, "undefined", NoInterval)
  \/ RunEffect(i)
  \/ \E r \in requests[i], v \in Results : Resolve(i, r, v)
  \/ \E r \in requests[i], err \in Rejections : Reject(i, r, err)
  \/ Unmount(i)

NextErrors == FetchStep(1) \/ AsyncStep

SpecErrors == Init /\ [][NextErrors]_vars

\* ---- properties ----

\* the effect closure that belongs to the current inputs of instance i:
\* the latest one while the hook is mounted and enabled, otherwise none
CurrentEffect(i) ==
  IF phase[i] = "active" /\ enabled[i] # "false" THEN Len(effects[i]) ELSE 0

\* instance i keeps its FetchState in this step
SameFetchState(i) ==
  /\ data'[i] = data[i]
  /\ error'[i] = error[i]
  /\ loading'[i] = loading[i]

\* what the hooks are to store for the rejection value err
StoredFor(stored, err) ==
  /\ err.kind = "Error" => stored = err
  /\ err.kind # "Error" =>
       stored.kind = "Error" /\ stored.value = "Unknown error" /\ stored.ref = 0

\* C1: once the tracked inputs have changed (to another configuration or to
\* enabled=false), the settlement of a request of an earlier configuration
\* changes none of data, error and loading.
C1_StaleSettlementDiscarded ==
  [][\A i \in Instances : \A r \in requests[i] :
       (phase[i] = "active" /\ r \notin requests'[i] /\ r.eff # CurrentEffect(i))
         => SameFetchState(i)]_vars

\* a request of the first configuration has settled while the request of the
\* second one is outstanding, and nothing was committed
C1_Witness ==
  \E i \in Instances :
    /\ phase[i] = "active" /\ enabled[i] # "false"
    /\ runs[i] = 2 /\ issued[i] = 2
    /\ requests[i] = {[id |-> 2, eff |-> 2]}
    /\ lastSettled[i].how # "none" /\ lastCommit[i] = "none"
    /\ loading[i] /\ data[i] = null /\ error[i] = null

\* C2: after teardown no step changes data, error or loading of the instance.
C2_NoWriteAfterTeardown ==
  [][\A i \in Instances : phase[i] = "unmounted" => SameFetchState(i)]_vars

\* the only request of the instance settled after the teardown
C2_Witness ==
  \E i \in Instances :
    /\ phase[i] = "unmounted" /\ runs[i] = 1 /\ issued[i] = 1
    /\ requests[i] = {} /\ lastSettled[i].how # "none"
    /\ lastCommit[i] = "none" /\ loading[i] /\ data[i] = null

\* C3: while the hook has been disabled since mount, no get has been issued
\* and loading is false in every state the component sees, the first included.
C3_DisabledNeverLoading ==
  \A i \in Instances :
    (phase[i] \in {"rendered", "active"} /\ enabled[i] = "false" /\ effects[i] = <<>>)
      => (issued[i] = 0 /\ loading[i] = FALSE)

\* C4: toggling enabled from false to true, nothing else changing and no
\* refetch interval set, issues exactly one get for the url and sets loading.
C4_ToggleIssuesOneGet ==
  [][\A i \in Instances :
       ( /\ phase[i] = "active" /\ phase'[i] = "active"
         /\ enabled[i] = "false" /\ enabled'[i] = "true"
         /\ url'[i] = url[i] /\ apiClient'[i] = apiClient[i]
         /\ refetchInterval'[i] = refetchInterval[i]
         /\ refetchInterval[i] \in {NoInterval, Interval(0)} )
       => ( /\ issued'[i] = issued[i] + 1
            /\ Cardinality(requests'[i] \ requests[i]) = 1
            /\ requests[i] \subseteq requests'[i]
            /\ lastGet'[i] = [url |-> url[i], apiClient |-> apiClient[i]]
            /\ loading'[i] = TRUE
            /\ timers'[i] = {} )]_vars

\* mounted disabled, then enabled: one get is outstanding and loading is true
C4_Witness ==
  \E i \in Instances :
    /\ phase[i] = "active" /\ enabled[i] = "true"
    /\ refetchInterval[i] = NoInterval
    /\ runs[i] = 2 /\ Len(effects[i]) = 1 /\ issued[i] = 1
    /\ Cardinality(requests[i]) = 1 /\ loading[i]

\* C5 as stated: once a settlement has been committed, data and error are
\* never both set.
C5_AtMostOneOfDataError ==
  \A i \in Instances :
    lastCommit[i] # "none" => ~(data[i] # null /\ error[i] # null)

\* C5 as amended: after a committed success error is absent; data and error
\* are both set only when the latest committed settlement is a failure.
C5_BothOnlyAfterFailure ==
  \A i \in Instances :
    /\ lastCommit[i] = "success" => (data[i] # null /\ error[i] = null)
    /\ (data[i] # null /\ error[i] # null) => lastCommit[i] = "failure"

\* a failure has been committed after a success: both fields are set
C5_Witness ==
  \E i \in Instances :
    data[i] # null /\ error[i] # null /\ lastCommit[i] = "failure" /\ dataReq[i] > 0

\* C6: in a mounted instance whose effect has run, loading is true exactly
\* while a request of the current configuration is outstanding.
C6_LoadingIffOutstanding ==
  \A i \in Instances :
    phase[i] = "active" =>
      (loading[i] <=> \E r \in requests[i] : r.eff = CurrentEffect(i))

\* C7: data is never replaced by the result of a request issued earlier than
\* the one whose result it holds.
C7_NoOverwriteByEarlier ==
  [][\A i \in Instances : dataReq'[i] >= dataReq[i]]_vars

\* a hook mounted enabled without interval whose effect has run at most once
Fresh(i) ==
  /\ phase[i] \in {"rendered", "active"}
  /\ runs[i] <= 1
  /\ enabled[i] # "false"
  /\ refetchInterval[i] \in {NoInterval, Interval(0)}

\* C8: a freshly mounted enabled hook shows {loading:true, data:absent,
\* error:absent} until its single get resolves with v, and then
\* {loading:false, data:v, error:absent}.
C8_FreshFetchSequence ==
  /\ [](\A i \in Instances :
          (Fresh(i) /\ (phase[i] = "rendered" \/ requests[i] # {}))
            => Visible(i) = FetchState(null, TRUE, null))
  /\ [][\A i \in Instances :
          (Fresh(i) /\ requests[i] # {} /\ requests'[i] = {}
             /\ lastSettled'[i].how = "resolved")
            => ( /\ data'[i] = lastSettled'[i].value
                 /\ loading'[i] = FALSE
                 /\ error'[i] = null )]_vars

\* the single get of a fresh hook has resolved and its value is shown
C8_Witness ==
  \E i \in Instances :
    /\ Fresh(i) /\ runs[i] = 1 /\ issued[i] = 1 /\ requests[i] = {}
    /\ lastSettled[i].how = "resolved"
    /\ Visible(i) = FetchState(lastSettled[i].value, FALSE, null)

\* C9: when a request of the current configuration fails, error is set,
\* loading becomes false and data keeps the value it had.
C9_FailureKeepsData ==
  [][\A i \in Instances : \A r \in requests[i] :
       (r \notin requests'[i] /\ r.eff = CurrentEffect(i)
          /\ lastSettled'[i].how = "rejected")
         => ( /\ error'[i] # null
              /\ lastSettled'[i].value.kind = "Error" => error'[i] = lastSettled'[i].value
              /\ loading'[i] = FALSE
              /\ data'[i] = data[i] )]_vars

\* a refetch failed after a success: the fetched value is still there
C9_Witness ==
  \E i \in Instances :
    /\ phase[i] = "active" /\ lastCommit[i] = "failure"
    /\ lastSettled[i] = Settled("rejected", JS("Error", "boom", 1))
    /\ data[i] \in Results /\ error[i] = JS("Error", "boom", 1) /\ ~loading[i]

\* C10: the error either hook stores for a rejection value is that value if
\* it is an Error instance, and otherwise a new Error with the message
\* "Unknown error".
C10_ErrorNormalization ==
  [][ /\ \A i \in Instances : \A r \in requests[i] :
           (r \notin requests'[i] /\ r.eff = CurrentEffect(i)
              /\ lastSettled'[i].how = "rejected")
             => StoredFor(error'[i], lastSettled'[i].value)
      /\ \A c \in calls :
           (c \notin calls' /\ outcomes'[c].action = "rejected")
             => StoredFor(aError', outcomes'[c].value)
      /\ (started' = started + 1 /\ outcomes'[started'].action = "threw")
             => StoredFor(aError', outcomes'[started'].value) ]_vars

\* usePluginData holds the replacement of a string rejection while
\* usePluginAsync holds the Error instance its action rejected with
C10_Witness ==
  \E i \in Instances :
    /\ lastSettled[i] = Settled("rejected", JS("string", "boom", 0))
    /\ error[i] = JS("Error", "Unknown error", 0)
    /\ started >= 1 /\ outcomes[1].action = "rejected"
    /\ outcomes[1].value = JS("Error", "boom", 1)
    /\ aError = JS("Error", "boom", 1)

\* the tracked inputs of instance i differ between the two states of a step
\* of a mounted hook that is enabled before and after it
InputsChangeEnabled(i) ==
  /\ phase[i] = "active" /\ phase'[i] = "active"
  /\ <<url'[i], apiClient'[i], enabled'[i], refetchInterval'[i]>>
       # <<url[i], apiClient[i], enabled[i], refetchInterval[i]>>
  /\ enabled[i] # "false" /\ enabled'[i] # "false"

\* C11: whenever a tracked input changes while the hook stays enabled, data
\* and error return to absent, loading is true and one new get is issued, so
\* that no data of the previous configuration is visible afterwards.
C11_InputChangeResets ==
  [][\A i \in Instances :
       InputsChangeEnabled(i)
         => ( /\ data'[i] = null
              /\ error'[i] = null
              /\ loading'[i] = TRUE
              /\ issued'[i] = issued[i] + 1
              /\ lastGet'[i] = [url |-> url'[i], apiClient |-> apiClient'[i]] )]_vars

\* ---- usePluginData with every kind of refetchInterval ----

\* One component whose url and client never change, while enabled and
\* refetchInterval take every value: unset, 0, negative, positive.
NextIntervals ==
  HookStep(1, {"/a"}, {"client1"}, EnabledOpts, IntervalOpts, SomeRejections)

SpecIntervals == Init /\ [][NextIntervals]_vars

\* refetchInterval is set and greater than zero
PositiveInterval(ri) == ri.set /\ ri.ms > 0

\* C12: a mounted hook has a periodic timer armed exactly when it is enabled
\* and refetchInterval is set and greater than zero; with an unset, zero or
\* negative refetchInterval the only request of an activation is the one the
\* effect run issues.
C12_TimerIffPositiveInterval ==
  /\ [](\A i \in Instances :
          phase[i] = "active" =>
            (timers[i] # {} <=>
               (enabled[i] # "false" /\ PositiveInterval(refetchInterval[i]))))
  /\ [][\A i \in Instances :
          (issued'[i] # issued[i] /\ ~PositiveInterval(refetchInterval'[i]))
            => (issued'[i] = issued[i] + 1 /\ runs'[i] = runs[i] + 1)]_vars

\* C13: after teardown or a change of the tracked inputs the timer of the
\* earlier configuration never fires: every armed timer belongs to the
\* current configuration, every get that is issued is issued by the current
\* effect closure for the current url and client, and none is issued after
\* teardown or while enabled is false.
C13_NoStaleTimer ==
  /\ [](\A i \in Instances : \A t \in timers[i] :
          /\ t.eff = CurrentEffect(i)
          /\ t.url = url[i] /\ t.apiClient = apiClient[i])
  /\ [][\A i \in Instances :
          issued'[i] # issued[i]
            => ( /\ phase'[i] = "active" /\ enabled'[i] # "false"
                 /\ lastGet'[i] = [url |-> url'[i], apiClient |-> apiClient'[i]]
                 /\ \A r \in requests'[i] \ requests[i] :
                      r.eff = CurrentEffect(i)' )]_vars

\* a timer was armed for "/a", the url changed to "/b", and the timer armed
\* for "/b" has fired: both outstanding requests are of the second closure
C13_Witness ==
  \E i \in Instances :
    /\ phase[i] = "active" /\ url[i] = "/b" /\ runs[i] = 2 /\ issued[i] = 3
    /\ \E t \in timers[i] : timers[i] = {t} /\ t.eff = 2 /\ t.url = "/b"
    /\ {[id |-> 2, eff |-> 2], [id |-> 3, eff |-> 2]} \subseteq requests[i]
    /\ lastGet[i].url = "/b"

\* ---- two components using usePluginData ----

\* One of two components that call usePluginData with the same url, the
\* same client object and the same options { refetchInterval: 1000 }; later
\* renders may pass another url.
PairStep(i) ==
  \/ Mount(i, "/a", "client1", "true", Interval(1000))
  \/ RunEffect(i)
  \/ \E u \in Urls : ChangeInputs(i, u, "client1", "true", Interval(1000))
  \/ \E t \in timers[i] : Tick(i, t)
  \/ \E r \in requests[i], v \in {JS("object", "v1", 1)} : Resolve(i, r, v)
  \/ Unmount(i)

NextTwo == PairStep(1) \/ PairStep(2)

SpecTwo == Init /\ [][NextTwo]_vars

\* everything usePluginData keeps for instance i: the inputs of its latest
\* render, its FetchState, the isMounted flags, the cleanup, the armed
\* timers and the outstanding requests, with the history kept about them
HookState(i) ==
  <<phase[i], url[i], apiClient[i], enabled[i], refetchInterval[i],
    data[i], loading[i], error[i], effects[i], cleanup[i], timers[i],
    requests[i], issued[i], runs[i], lastGet[i], lastSettled[i], dataReq[i],
    lastCommit[i], optionsRef[i]>>

C15_ExecuteNeverRejects ==
  /\ [](\A c \in 1 .. Len(outcomes) :
          LET o == outcomes[c]
          IN /\ o.promise # "rejected"
             /\ o.action = "pending" <=> o.promise = "pending"
             /\ o.action = "resolved" => o.result = o.value
             /\ o.action \in {"rejected", "threw"} => o.result = undefined)
  /\ [][\A c \in 1 .. Len(outcomes') :
          ( /\ c > Len(outcomes) \/ outcomes[c].action = "pending"
            /\ outcomes'[c].action \in {"rejected", "threw"} )
            => StoredFor(aError', outcomes'[c].value)]_vars

\* one invocation whose action rejected and one whose action resolved with
\* an object have both given their callers a fulfilled promise
C15_Witness ==
  /\ started = 2 /\ calls = {}
  /\ outcomes[1] = Outcome("rejected", JS("string", "boom", 0), "fulfilled", undefined)
  /\ outcomes[2].action = "resolved" /\ outcomes[2].promise = "fulfilled"
  /\ outcomes[2].result \in Results
  /\ aError = JS("Error", "Unknown error", 0)

\* C16: execute sets loading and clears error before it invokes the action
\* and leaves loading false when the action has settled; whenever no
\* invocation is outstanding, loading is false.
C16_LoadingAroundExecute ==
  /\ [](calls = {} => aLoading = FALSE)
  /\ [][ /\ (started' = started + 1 /\ outcomes'[started'].action = "pending")
              => (aLoading' = TRUE /\ aError' = null)
         /\ (started' = started + 1 /\ outcomes'[started'].action = "threw")
              => aLoading' = FALSE
         /\ \A c \in calls : c \notin calls' => aLoading' = FALSE ]_vars

\* an invocation that found an error stored has cleared it and then
\* resolved: nothing is outstanding and loading is false
C16_Witness ==
  /\ started = 2 /\ calls = {} /\ aLoading = FALSE /\ aError = null
  /\ outcomes[1].action \in {"rejected", "threw"}
  /\ outcomes[2].action = "resolved"

\* ---- validateManifest ----

\* A value passed as manifest is [kind, fields]: kind is its type tag and
\* fields what reading manifest[f] gives for the nine field names (undefined
\* for a field the object does not have, and for every field of a number,
\* string or boolean).
Manifest(k, fs) == [kind |-> k, fields |-> fs]

\* values a required field takes in every combination: absent, "" and "x"
PlainValues == {undefined, JS("string", "", 0), JS("string", "x", 0)}
\* values one required field takes while the other five hold "x"
OtherValues == {null, JS("number", "0", 0), JS("number", "7", 0),
                JS("number", "NaN", 0), JS("boolean", "false", 0),
                JS("boolean", "true", 0), JS("object", "{}", 5),
                JS("array", "[]", 6)}
\* the value of an optional field when it is present
OptionalValue(f) ==
  IF f = "tags" THEN JS("array", "[a]", 7) ELSE JS("string", "x", 0)

ObjectManifests ==
  {Manifest("object", fs) : fs \in
     {fs \in [AllFields -> PlainValues \cup {JS("array", "[a]", 7)}] :
        /\ \A f \in RequiredFields : fs[f] \in PlainValues
        /\ \A f \in OptionalFields : fs[f] \in {undefined, OptionalValue(f)}}}
OddManifests ==
  {Manifest("object", [f \in AllFields |->
                         IF f = g THEN v
                         ELSE IF f \in RequiredFields THEN JS("string", "x", 0)
                         ELSE undefined]) :
     g \in RequiredFields, v \in OtherValues}
NonObjects ==
  {Manifest(k, [f \in AllFields |-> undefined]) :
     k \in {"null", "undefined", "number", "string", "boolean"}}
Manifests == ObjectManifests \cup OddManifests \cup NonObjects

\* variant: a field passes only if it is a non-empty string
Truthy_StringOnly(v) == v.kind = "string" /\ v.value # ""

\* JavaScript truthiness, the test of "if (!manifest[field])"
Truthy(v) ==
  CASE v.kind \in {"undefined", "null"} -> FALSE
    [] v.kind = "string" -> v.value # ""
    [] v.kind = "number" -> v.value \notin {"0", "NaN"}
    [] v.kind = "boolean" -> v.value = "true"
    [] OTHER -> TRUE

\* console.error(`Missing required field: ${field}`)
Diagnostic(f) == [text |-> "Missing required field: ", field |-> f]

Verdict(r, l, n) == [ret |-> r, log |-> l, examined |-> n]

\* variant: the list of required fields without bundleUrl
RequiredList_NoBundleUrl == <<"id", "name", "version", "description", "author">>

\* variant: the fields are examined from the last to the first
RequiredList_Reversed ==
  <<"bundleUrl", "author", "description", "version", "name", "id">>

\* the array the loop of validateManifest iterates over
RequiredList == Required

\* the for loop from its k-th iteration on: reading a property of null or
\* undefined throws a TypeError, a falsy field logs and returns false
RECURSIVE ValidateFrom(_, _)
ValidateFrom(m, k) ==
  IF k > Len(RequiredList) THEN Verdict("true", <<>>, k - 1)
  ELSE IF m.kind \in {"null", "undefined"} THEN Verdict("TypeError", <<>>, k - 1)
  ELSE IF ~Truthy(m.fields[RequiredList[k]])
       THEN Verdict("false", <<Diagnostic(RequiredList[k])>>, k)
  ELSE ValidateFrom(m, k + 1)

validateManifest(m) == ValidateFrom(m, 1)

\* the call validateManifest(manifest)
Validate ==
  /\ vResult = NoVerdict
  /\ vResult' = validateManifest(manifest)
  /\ UNCHANGED <<manifest, uBase, uPath, uParams, uResult, pluginVars>>
  /\ UNCHANGED <<hookVars, asyncVars>>

InitManifest ==
  /\ HooksInit
  /\ manifest \in Manifests
  /\ vResult = NoVerdict
  /\ uBase = NoUrlArg /\ uPath = NoUrlArg /\ uParams = NoParams
  /\ uResult = NoUrl
  /\ PluginIdle

NextManifest == Validate

SpecManifest == InitManifest /\ [][NextManifest]_vars

\* the falsy values of JavaScript among the field values
FalsyValues ==
  {undefined, null, JS("string", "", 0), JS("number", "0", 0),
   JS("number", "NaN", 0), JS("boolean", "false", 0)}

\* the required fields of the manifest that are missing or falsy
MissingOrFalsy == {f \in RequiredFields : manifest.fields[f] \in FalsyValues}

\* the call has returned or thrown
Validated == vResult # NoVerdict

\* C17: validateManifest returns false for every manifest in which one of
\* the six required fields is missing or falsy, and true when all six are
\* present and truthy, whatever the optional fields are.
C17_RequiredFieldsDecide ==
  (Validated /\ manifest.kind \notin {"null", "undefined"}) =>
    /\ MissingOrFalsy # {} => vResult.ret = "false"
    /\ MissingOrFalsy = {} => vResult.ret = "true"

\* a manifest with the six required fields and tags, without thumbnail, was
\* accepted
C17_Witness ==
  /\ Validated /\ manifest.kind = "object" /\ MissingOrFalsy = {}
  /\ manifest.fields["tags"] # undefined /\ manifest.fields["thumbnail"] = undefined
  /\ vResult.ret = "true"

\* C18: validateManifest never raises an exception: whatever value is
\* passed, a failure is reported by the logged diagnostic and false.
C18_NeverThrows ==
  Validated =>
    /\ vResult.ret \in {"true", "false"}
    /\ vResult.ret = "false" => vResult.log # <<>>

MaxParams == 2             \* entries of the params object

\* A base or path string is kept as the parts the URL parser splits it into:
\* kind "abs-url" (scheme and host given), "abs-path" (leading slash) or
\* "rel"; valid tells whether it parses as a URL on its own; segs are the
\* path segments and query the entries of its query string, decoded.
UrlArg(k, ok, o, sg, q) ==
  [kind |-> k, valid |-> ok, origin |-> o, segs |-> sg, query |-> q]
Entry(k, v) == [key |-> k, value |-> v]

Bases ==
  {UrlArg("abs-url", TRUE, "https://api.x", <<"">>, <<>>),        \* https://api.x/
   UrlArg("abs-url", TRUE, "https://api.x", <<"v1", "">>, <<>>),  \* https://api.x/v1/
   UrlArg("rel", FALSE, "", <<"api">>, <<>>)}                     \* api
Paths ==
  {UrlArg("abs-path", FALSE, "", <<"items">>, <<>>),              \* /items
   UrlArg("rel", FALSE, "", <<"items">>, <<>>),                   \* items
   UrlArg("abs-path", FALSE, "", <<"items">>, <<Entry("page", "1")>>),  \* /items?page=1
   UrlArg("rel", FALSE, "", <<"items">>, <<Entry("q", "a b")>>),  \* items?q=a+b
   UrlArg("abs-url", TRUE, "https://other.y", <<"z">>, <<>>)}     \* https://other.y/z

ParamKeys == {"page", "q", "sort"}
ParamValues ==
  {undefined, null, JS("number", "0", 0), JS("number", "2", 0),
   JS("boolean", "false", 0), JS("string", "", 0), JS("string", "a b", 0)}
\* params: not given, or an object whose own entries are, in insertion
\* order, a sequence with distinct keys
Params(g, es) == [given |-> g, entries |-> es]
ParamObjects ==
  {Params(TRUE, es) : es \in
     {es \in UNION {[1 .. n -> {Entry(k, v) : k \in ParamKeys, v \in ParamValues}] :
                      n \in 0 .. MaxParams} :
        \A a, b \in DOMAIN es : a # b => es[a].key # es[b].key}}
ParamInputs == {NoParams} \cup ParamObjects

\* String(value)
StringOf(v) ==
  CASE v.kind = "undefined" -> "undefined"
    [] v.kind = "null" -> "null"
    [] v.kind = "object" -> "[object Object]"
    [] OTHER -> v.value

\* application/x-www-form-urlencoded, as url.toString() writes a key or a
\* value of the query and as a reader of the url decodes it
Encode(str) == IF str = "a b" THEN "a+b" ELSE str
Decode(str) == IF str = "a+b" THEN "a b" ELSE str

Href(o, sg, q) == [origin |-> o, segs |-> sg, search |-> q]
Built(t, h) == [threw |-> t, href |-> h]

\* all but the last element of a sequence
Front(sq) == IF sq = <<>> THEN <<>> ELSE SubSeq(sq, 1, Len(sq) - 1)

\* new URL(path, base): [threw, origin, segs, query]
NewURL(path, base) ==
  IF path.kind = "abs-url"
    THEN [threw |-> FALSE, origin |-> path.origin, segs |-> path.segs, query |-> path.query]
  ELSE IF ~base.valid
    THEN [threw |-> TRUE, origin |-> "", segs |-> <<>>, query |-> <<>>]
  ELSE IF path.kind = "abs-path"
    THEN [threw |-> FALSE, origin |-> base.origin, segs |-> path.segs, query |-> path.query]
  ELSE [threw |-> FALSE, origin |-> base.origin,
        segs |-> Front(base.segs) \o path.segs, query |-> path.query]

\* url.searchParams.append(key, String(value))
WithParam(q, k, str) == Append(q, Entry(k, str))

\* the forEach over Object.entries(params) from entry n on, q being the
\* entries of url.searchParams so far
RECURSIVE AppendEntries(_, _, _)
AppendEntries(q, es, n) ==
  IF n > Len(es) THEN q
  ELSE IF es[n].value # undefined /\ es[n].value # null
         THEN AppendEntries(WithParam(q, es[n].key, StringOf(es[n].value)), es, n + 1)
  ELSE AppendEntries(q, es, n + 1)

\* url.toString(): every key and value of the query is written encoded
Serialized(q) == [n \in DOMAIN q |-> Entry(Encode(q[n].key), Encode(q[n].value))]

buildApiUrl(base, path, params) ==
  LET u == NewURL(path, base)
  IN IF u.threw THEN Built(TRUE, NoUrl.href)
     ELSE Built(FALSE,
            Href(u.origin, u.segs,
                 Serialized(IF params.given
                            THEN AppendEntries(u.query, params.entries, 1)
                            ELSE u.query)))

\* the call buildApiUrl(uBase, uPath, uParams)
BuildApiUrl ==
  /\ uBase # NoUrlArg /\ uResult = NoUrl
  /\ uResult' = buildApiUrl(uBase, uPath, uParams)
  /\ UNCHANGED <<manifest, vResult, uBase, uPath, uParams, pluginVars>>
  /\ UNCHANGED <<hookVars, asyncVars>>

InitUrl ==
  /\ HooksInit
  /\ manifest = NoManifest /\ vResult = NoVerdict
  /\ uBase \in Bases /\ uPath \in Paths /\ uParams \in ParamInputs
  /\ uResult = NoUrl
  /\ PluginIdle

NextUrl == BuildApiUrl

SpecUrl == InitUrl /\ [][NextUrl]_vars

\* the positions of the query of the returned URL whose key reads k
EntriesFor(k) ==
  {n \in DOMAIN uResult.href.search : Decode(uResult.href.search[n].key) = k}

\* C20: for every base, path (a path that carries a query string included)
\* and params, the returned URL has no query entry for a key whose value in
\* params is undefined or null, and exactly one entry for every other key of
\* params, holding the string form of the value; 0, false and "" are
\* written, not skipped.
C20_OneEntryPerDefinedParam ==
  (uResult # NoUrl /\ ~uResult.threw /\ uParams.given) =>
    \A n \in DOMAIN uParams.entries :
      LET e == uParams.entries[n]
      IN IF e.value \in {undefined, null}
           THEN EntriesFor(e.key) = {}
           ELSE /\ Cardinality(EntriesFor(e.key)) = 1
                /\ \A m \in EntriesFor(e.key) :
                     Decode(uResult.href.search[m].value) = e.value.value

\* ---- createPlugin ----

\* A component is a function object: ref is its identity, name the value of
\* its name property ("" for an anonymous function), and displayName,
\* defaultProps and propTypes the properties a host may have put on it.
Component(r, n, dn, dp, pt) ==
  [ref |-> r, name |-> n, displayName |-> dn, defaultProps |-> dp, propTypes |-> pt]

Components ==
  {Component(r, n, dn, dp, pt) :
     r \in 1 .. 3,
     n \in {"", "MyPlugin", "Chart"},
     dn \in {undefined, JS("string", "Old", 0), JS("string", "Plugin", 0)},
     dp \in {undefined, JS("object", "{}", 8)},
     pt \in {undefined, JS("object", "{}", 9)}}

\* component.name || 'Plugin'
DisplayNameFor(c) == IF c.name # "" THEN c.name ELSE "Plugin"

\* (component as any).displayName = ...: the function object afterwards
Named(c) == [c EXCEPT !.displayName = JS("string", DisplayNameFor(c), 0)]

\* variant: the component is wrapped in a new function
ReturnedValue_Wrapper(c) == 0

\* return component;
ReturnedValue(c) == c.ref

\* the call createPlugin(pArg)
CreatePlugin ==
  /\ pArg # NoComponent /\ pReturned = NotCalled
  /\ pComponent' = Named(pComponent)
  /\ pReturned' = [called |-> TRUE, ref |-> ReturnedValue(pComponent)]
  /\ UNCHANGED <<pArg, manifest, vResult, uBase, uPath, uParams, uResult>>
  /\ UNCHANGED <<hookVars, asyncVars>>

InitPlugin ==
  /\ HooksInit
  /\ manifest = NoManifest /\ vResult = NoVerdict
  /\ uBase = NoUrlArg /\ uPath = NoUrlArg /\ uParams = NoParams
  /\ uResult = NoUrl
  /\ pArg \in Components /\ pComponent = pArg /\ pReturned = NotCalled

NextPlugin == CreatePlugin

SpecPlugin == InitPlugin /\ [][NextPlugin]_vars

\* C21: createPlugin returns the very function it was given, and the only
\* property of that function it changes is displayName, which becomes the
\* name of the function, or "Plugin" when the function is anonymous.
C21_SameFunctionNamed ==
  pReturned.called =>
    /\ pReturned.ref = pArg.ref
    /\ pComponent.ref = pArg.ref
    /\ pComponent.displayName.kind = "string"
    /\ pArg.name # "" => pComponent.displayName.value = pArg.name
    /\ pArg.name = "" => pComponent.displayName.value = "Plugin"
    /\ pComponent.name = pArg.name
    /\ pComponent.defaultProps = pArg.defaultProps
    /\ pComponent.propTypes = pArg.propTypes

\* an anonymous function that carried defaultProps and another displayName
\* was passed and came back labelled "Plugin"
C21_Witness ==
  /\ pReturned.called /\ pReturned.ref = pArg.ref
  /\ pArg.name = "" /\ pArg.displayName = JS("string", "Old", 0)
  /\ pArg.defaultProps # undefined
  /\ pComponent.displayName = JS("string", "Plugin", 0)

\* C22: usePluginAsync does not serialize overlapping calls: execute can be
\* called while an earlier invocation is outstanding and then starts a
\* second invocation at once, leaving the earlier one as it is; a settlement
\* ends only its own invocation, whose caller gets the outcome of that
\* invocation, and every settlement writes the shared loading and error.
C22_OverlappingCalls ==
  /\ []((started < MaxCalls /\ aPhase = "mounted") => ENABLED Execute)
  /\ [][ /\ (started' = started + 1 /\ outcomes'[started'].action = "pending")
              => ( /\ calls' = calls \cup {started'}
                   /\ \A c \in 1 .. started : outcomes'[c] = outcomes[c] )
         /\ \A c \in calls :
              c \notin calls'
                => ( /\ calls' = calls \ {c}
                     /\ started' = started
                     /\ \A d \in (1 .. started) \ {c} : outcomes'[d] = outcomes[d]
                     /\ outcomes'[c].promise = "fulfilled"
                     /\ outcomes'[c].action = "resolved"
                          => outcomes'[c].result = outcomes'[c].value
                     /\ aLoading' = FALSE
                     /\ outcomes'[c].action = "rejected" => aError' # null ) ]_vars

\* two invocations were outstanding together; the first one has resolved
\* with its own value while the second one is still running
C22_Witness ==
  /\ started = 2 /\ calls = {2}
  /\ outcomes[1].action = "resolved" /\ outcomes[1].result = JS("object", "v1", 1)
  /\ outcomes[2].action = "pending"

\* C29: usePluginAsync has no staleness or teardown guard: the settlement of
\* an invocation sets loading to false, and error when it failed, whether or
\* not the component has been torn down and whether or not a later
\* invocation is still outstanding.
C29_UnguardedSettlement ==
  [][\A c \in calls :
       c \notin calls'
         => ( /\ aLoading' = FALSE
              /\ outcomes'[c].action = "rejected"
                   => StoredFor(aError', outcomes'[c].value)
              /\ aPhase = "unmounted" => aLateWrites' > aLateWrites )]_vars

\* the component was torn down with two invocations outstanding; the first
\* one has settled and set loading to false while the second one is running
C29_Witness ==
  /\ aPhase = "unmounted" /\ started = 2 /\ calls = {2}
  /\ aLoading = FALSE /\ aLateWrites > 0

\* C30: once every invocation has settled, error is absent exactly when no
\* invocation failed after the most recent call of execute, and otherwise
\* holds the error of the invocation that failed last.
C30_ErrorFollowsOrder ==
  calls = {} =>
    IF lastFail = 0 THEN aError = null
    ELSE /\ outcomes[lastFail].action \in {"rejected", "threw"}
         /\ StoredFor(aError, outcomes[lastFail].value)

\* the invocation started first failed after the second one had been
\* started; the second one succeeded and error holds the first one's error
C30_Witness ==
  /\ started = 2 /\ calls = {} /\ lastFail = 1
  /\ outcomes[1] = OutcomeOnFailure("rejected", JS("Error", "boom", 1))
  /\ outcomes[2].action = "resolved"
  /\ aError = JS("Error", "boom", 1)

\* the order in which the required fields are to be examined
FieldOrder == <<"id", "name", "version", "description", "author", "bundleUrl">>

\* the positions in that order of the fields that are missing or falsy
BadPositions == {k \in 1 .. Len(FieldOrder) : FieldOrder[k] \in MissingOrFalsy}

\* C23: validateManifest examines the required fields in the order id, name,
\* version, description, author, bundleUrl; at the first missing or falsy
\* one it logs one diagnostic naming that field and returns false without
\* reading a later field; when it returns true it has logged nothing.
C23_ShortCircuit ==
  (Validated /\ manifest.kind \notin {"null", "undefined"}) =>
    IF BadPositions = {}
      THEN vResult.ret = "true" /\ vResult.log = <<>>
      ELSE LET first == CHOOSE k \in BadPositions : \A j \in BadPositions : k <= j
           IN /\ vResult.ret = "false"
              /\ Len(vResult.log) = 1
              /\ vResult.log[1].field = FieldOrder[first]
              /\ vResult.log[1].text = "Missing required field: "
              /\ vResult.examined = first

\* name and author are missing, id is there: only name was reported and
\* two fields were read
C23_Witness ==
  /\ Validated /\ manifest.kind = "object"
  /\ MissingOrFalsy = {"name", "author"}
  /\ vResult.ret = "false" /\ vResult.examined = 2
  /\ vResult.log = <<Diagnostic("name")>>

\* ---- usePluginData with renders that change no tracked input ----

\* One component that renders again with a new options object of the same
\* field values, besides changing url, enabled and refetchInterval.
NextRerender ==
  \/ HookStep(1, Urls, {"client1"}, {"true", "false"}, SomeIntervals,
              {JS("Error", "boom", 1)})
  \/ \E o \in OptionRefs \ {optionsRef[1]} : Rerender(1, o)

SpecRerender == Init /\ [][NextRerender]_vars

\* the four tracked inputs of instance i are the same after the step
SameInputs(i) ==
  <<url'[i], apiClient'[i], enabled'[i], refetchInterval'[i]>>
    = <<url[i], apiClient[i], enabled[i], refetchInterval[i]>>

\* C24: apiClient.get is issued only by the first activation, by a change
\* of a tracked input and by a tick of the armed timer; a render in which
\* the four tracked inputs are unchanged, a new options object with the same
\* field values included, issues no request, does not restart the timer and
\* changes no state.
C24_GetOnlyOnActivationChangeTick ==
  /\ [][\A i \in Instances :
          issued'[i] # issued[i]
            => \/ phase[i] = "rendered" /\ phase'[i] = "active"
               \/ phase[i] = "active" /\ ~SameInputs(i)
               \/ /\ phase'[i] = phase[i] /\ SameInputs(i)
                  /\ optionsRef'[i] = optionsRef[i]
                  /\ \E t \in timers[i] :
                       /\ lastGet'[i] = [url |-> t.url, apiClient |-> t.apiClient]
                       /\ \A r \in requests'[i] \ requests[i] : r.eff = t.eff]_vars
  /\ [][\A i \in Instances :
          (phase[i] = "active" /\ phase'[i] = "active" /\ SameInputs(i)
             /\ optionsRef'[i] # optionsRef[i])
            => ( /\ issued'[i] = issued[i] /\ requests'[i] = requests[i]
                 /\ timers'[i] = timers[i] /\ cleanup'[i] = cleanup[i]
                 /\ effects'[i] = effects[i] /\ runs'[i] = runs[i]
                 /\ SameFetchState(i) )]_vars

\* the component rendered again with a new options object while its first
\* request was outstanding and its timer armed: still one effect run, one
\* request and the same timer
C24_Witness ==
  \E i \in Instances :
    /\ phase[i] = "active" /\ optionsRef[i] = 2
    /\ runs[i] = 1 /\ issued[i] = 1
    /\ requests[i] = {[id |-> 1, eff |-> 1]}
    /\ \E t \in timers[i] : timers[i] = {t} /\ t.eff = 1
    /\ loading[i]

\* ---- usePluginData: progress ----

\* One component, mounted enabled without refetch interval, whose url and
\* client change; it is not torn down.
LiveStep(i) ==
  \/ \E u \in Urls, c \in Clients : Mount(i, u, c, "true", NoInterval)
  \/ RunEffect(i)
  \/ \E u \in Urls, c \in Clients : ChangeInputs(i, u, c, "true", NoInterval)
  \/ \E r \in requests[i], v \in {JS("object", "v1", 1)} : Resolve(i, r, v)
  \/ \E r \in requests[i], err \in {JS("Error", "boom", 1)} : Reject(i, r, err)

\* a request of instance i settles, one way or the other
Settle(i) ==
  \/ \E r \in requests[i], v \in {JS("object", "v1", 1)} : Resolve(i, r, v)
  \/ \E r \in requests[i], err \in {JS("Error", "boom", 1)} : Reject(i, r, err)

NextLive == LiveStep(1)

\* React runs the effect of a render that was committed, and every
\* apiClient.get that was issued settles; the inputs change finitely often.
SpecLive ==
  /\ Init /\ [][NextLive]_vars
  /\ WF_vars(RunEffect(1))
  /\ WF_vars(Settle(1))

\* C25: for a mounted, enabled hook without refetch interval whose inputs
\* stop changing and whose requests all settle, loading eventually becomes
\* false and stays false.
C25_LoadingSettles ==
  <>[](\A i \in Instances : phase[i] # "init" => (~loading[i] /\ requests[i] = {}))

\* the url changed while the first request was outstanding; the request of
\* the first url settled after that of the second one, and loading is false
C25_Witness ==
  \E i \in Instances :
    /\ phase[i] = "active" /\ runs[i] = 2 /\ issued[i] = 2
    /\ requests[i] = {} /\ ~loading[i]
    /\ dataReq[i] = 2 /\ lastSettled[i].how = "rejected" /\ error[i] = null

\* ---- usePluginData: a configuration that comes back ----

\* One component mounted with url "/a" whose url then alternates between
\* "/a" and "/b", nothing else changing: its third activation has the
\* configuration of the first one.
NextABA ==
  \/ Mount(1, "/a", "client1", "true", NoInterval)
  \/ RunEffect(1)
  \/ \E u \in Urls : ChangeInputs(1, u, "client1", "true", NoInterval)
  \/ \E r \in requests[1], v \in Results : Resolve(1, r, v)
  \/ \E r \in requests[1], err \in SomeRejections : Reject(1, r, err)

SpecABA == Init /\ [][NextABA]_vars

\* C26: staleness is decided per activation, not by comparing
\* configurations: when the inputs go from A to B and back to A, a request
\* of the first activation is issued for the url the hook has again, and yet
\* its settlement is discarded; only a request of the latest activation
\* writes state.
C26_StalePerActivation ==
  /\ [](\A i \in Instances :
          phase[i] = "active" => url[i] = UrlOfActivation(Len(effects[i])))
  /\ [][\A i \in Instances : \A r \in requests'[i] \ requests[i] :
          lastGet'[i].url = UrlOfActivation(r.eff)]_vars
  /\ [][\A i \in Instances : \A r \in requests[i] :
          (r \notin requests'[i] /\ r.eff # Len(effects[i]))
            => SameFetchState(i)]_vars

\* the url went from "/a" to "/b" and back to "/a"; the request of the first
\* activation has resolved, nothing was written, and the requests of the
\* second and third activation are outstanding
C26_Witness ==
  \E i \in Instances :
    /\ phase[i] = "active" /\ url[i] = "/a" /\ runs[i] = 3
    /\ requests[i] = {[id |-> 2, eff |-> 2], [id |-> 3, eff |-> 3]}
    /\ lastSettled[i].how = "resolved" /\ lastCommit[i] = "none"
    /\ data[i] = null /\ loading[i]

\* C27: data is written only by the successful settlement of a request of
\* the current activation, with the value the request resolved with; input
\* changes, disablement, ticks and failures never set it back to absent.
C27_DataOnlyBySuccess ==
  /\ [][\A i \in Instances :
          data'[i] # data[i]
            => ( /\ \E r \in requests[i] \ requests'[i] : r.eff = CurrentEffect(i)
                 /\ lastSettled'[i].how = "resolved"
                 /\ data'[i] = lastSettled'[i].value )]_vars
  /\ [][\A i \in Instances : data[i] # null => data'[i] # null]_vars

\* a fetched value is still there after a change of the url, a failure of
\* the request for the new url and the disablement of the hook
C27_Witness ==
  \E i \in Instances :
    /\ phase[i] = "active" /\ enabled[i] = "false" /\ runs[i] = 3
    /\ url[i] = "/b" /\ dataReq[i] = 1 /\ data[i] \in Results
    /\ lastCommit[i] = "failure" /\ error[i] # null

\* C28: a tick of the timer issues a get and sets loading without a test
\* for an outstanding request: a timer that is armed can always fire, the
\* requests that are outstanding stay so, and requests of one activation
\* overlap.
C28_TickIgnoresOutstanding ==
  /\ [](\A i \in Instances : \A t \in timers[i] :
          issued[i] < MaxRequests => ENABLED Tick(i, t))
  /\ [][\A i \in Instances :
          (issued'[i] # issued[i] /\ runs'[i] = runs[i])
            => ( /\ loading'[i] = TRUE
                 /\ requests[i] \subseteq requests'[i]
                 /\ Cardinality(requests'[i]) = Cardinality(requests[i]) + 1 )]_vars

\* three requests of the same activation are outstanding at once
C28_Witness ==
  \E i \in Instances :
    /\ phase[i] = "active" /\ runs[i] = 1 /\ loading[i]
    /\ requests[i] = {[id |-> 1, eff |-> 1], [id |-> 2, eff |-> 1], [id |-> 3, eff |-> 1]}

====
